---- MODULE Spec2Model ----
(***************************************************************************)
(* Model of cli/ops/net.rs: the four network ops (listen, accept, dial,    *)
(* shutdown), the Accept future and the TcpListenerResource with its       *)
(* single tracked accept task.  The resource table, the permission check,  *)
(* the resolver and the OS sockets are collaborators of that file.         *)
(*                                                                         *)
(* Threads.  Op handlers run one at a time on the isolate thread (main).   *)
(* Every Accept future and every dial future is a task of its own, polled  *)
(* by the reactor's workers.  A step runs from one point where the code    *)
(* can be suspended (a "not ready" return, the blocking resolution, the    *)
(* return of a handler) to the next; it takes the resource table's lock    *)
(* (it needs it free) and says in `ev` what it called and whether it left  *)
(* the lock held.  Between the poll of an Accept future and the and_then   *)
(* closure that adds the stream the lock is released, so the two are two   *)
(* steps.  Each step is followed by Respond, which hands its result back.  *)
(***************************************************************************)
EXTENDS Integers, Sequences, FiniteSets, TLC

\* ---------------------------------------------------------------- bounds
MaxRid == 3        \* resource ids the table hands out, after stdin's 0
MaxOps == 2        \* Accept futures created
MaxConns == 1      \* connections initiated towards this process or by it
MaxDials == 1      \* dial futures created

\* ------------------------------------------------------------- constants
U16 == 65536                      \* a u32 is held as two 16-bit halves <<hi, lo>>
TCP == "tcp"
LOOPBACK == "127.0.0.1"
EphemeralListen == 49152          \* first port the OS gives to a bind on port 0
EphemeralClient == 50000          \* first port the OS gives to a connecting socket

Rids == 0..MaxRid
OpIds == 1..MaxOps
DialIds == 1..MaxDials
NoTask == 0

\* Who holds the resource table's lock.
Free == <<"free", 0>>
MAIN == <<"main", 0>>
AcceptTask(o) == <<"accept", o>>
DialTask(d) == <<"dial", d>>

\* Arguments a script can send.
ArgRids == {-1} \cup Rids
ArgHows == {0, 1, 2}
ArgTransports == {TCP, "udp"}
ArgHostnames == {"localhost", "blocked.example", "nohost.invalid"}
ListenPorts == {0}                 \* listen on a port the OS picks
DialPorts == {EphemeralListen}     \* dial the first port the OS gave

\* ------------------------------------------------------------ resources
SocketAddr(ip, port) == [ip |-> ip, port |-> port]
NoAddr == [ip |-> "", port |-> 0]

NoRes == [kind |-> "none"]

\* struct TcpListenerResource { listener, task, local_addr }.  `backlog` and
\* `reader` are the state of the tokio listener: the connections the OS has
\* queued, and the task the reactor wakes when the socket becomes readable.
TcpListenerResource(local_addr) ==
  [kind |-> "tcpListener", task |-> NoTask, local_addr |-> local_addr,
   backlog |-> <<>>, reader |-> NoTask]

\* StreamResource::TcpStream(tcp_stream); rd/wr: the direction is still open.
TcpStreamResource(local, peer) ==
  [kind |-> "stream", variant |-> "TcpStream", local |-> local, peer |-> peer,
   rd |-> TRUE, wr |-> TRUE]

\* Another variant of StreamResource (the table starts with stdin as rid 0).
StdinResource == [kind |-> "stream", variant |-> "Stdin"]

\* A queued connection, as the accepting side sees it.
Conn(local, peer) == [local |-> local, peer |-> peer]
NoConn == [local |-> NoAddr, peer |-> NoAddr]

\* SocketAddr::to_string() of an IPv4 address: "ip:port".
to_string(addr) == addr.ip \o ":" \o ToString(addr.port)

\* The json! a handler or future resolves with; "" for a key it does not
\* have.
Json(rid, localAddr, remoteAddr) ==
  [rid |-> rid, localAddr |-> localAddr, remoteAddr |-> remoteAddr]
NoJson == Json(-1, "", "")

\* `args.rid as u32` of an i32: the two's complement value, as <<hi, lo>>.
AsU32(i) ==
  IF i >= 0
    THEN <<i \div U16, i % U16>>
    ELSE <<(U16 - 1) - ((-i - 1) \div U16), (U16 - 1) - ((-i - 1) % U16)>>

\* The table's key for ResourceId `rid`: -1 when the table has no such key.
Key(tbl, rid) ==
  IF \E k \in DOMAIN tbl : AsU32(k) = rid
    THEN CHOOSE k \in DOMAIN tbl : AsU32(k) = rid
    ELSE -1

\* table.get::<T>(rid) / get_mut::<T>(rid): the entry when it is of kind T.
TableGet(tbl, rid, kind) ==
  LET k == Key(tbl, rid) IN
  IF k # -1 /\ tbl[k].kind = kind THEN tbl[k] ELSE NoRes

\* table.add(name, resource): the next unused rid.
TableAdd(tbl, nxt, res) == [table |-> [tbl EXCEPT ![nxt] = res], rid |-> nxt]

\* ------------------------------------------- TcpListenerResource methods
\* A track_task that lets the tracked task track itself again.
track_task_again(r, cur) ==
  IF r.task \notin {NoTask, cur}
    THEN [ok |-> FALSE, r |-> r]
    ELSE [ok |-> TRUE, r |-> [r EXCEPT !.task = cur]]

\* A track_task that tracks `cur` whatever the slot holds.
track_task_replacing(r, cur) == [ok |-> TRUE, r |-> [r EXCEPT !.task = cur]]

\* track_task: an error when a task is already tracked, else tracks `cur`.
track_task(r, cur) ==
  IF r.task # NoTask
    THEN [ok |-> FALSE, r |-> r]
    ELSE [ok |-> TRUE, r |-> [r EXCEPT !.task = cur]]

\* A notify_task that empties the slot without notifying the task.
notify_task_silent(r) == [r |-> [r EXCEPT !.task = NoTask], notified |-> {}]

\* notify_task: takes the task out of the slot and notifies it.
notify_task(r) ==
  [r |-> [r EXCEPT !.task = NoTask],
   notified |-> IF r.task # NoTask THEN {r.task} ELSE {}]

\* untrack_task: empties the slot.
untrack_task(r) == IF r.task # NoTask THEN [r EXCEPT !.task = NoTask] ELSE r

\* impl Drop for TcpListenerResource: notify_task; the tasks it notified.
DropResource(r) ==
  IF r.kind = "tcpListener" THEN notify_task(r).notified ELSE {}

\* listener.poll_accept() by task `cur`; `sockerr`: the OS reports an error.
\* Not ready registers `cur` with the reactor as the socket's reader.
poll_accept(r, cur, sockerr) ==
  IF sockerr THEN [out |-> "Err", r |-> r, item |-> NoConn]
  ELSE IF r.backlog # <<>>
    THEN [out |-> "Ready", r |-> [r EXCEPT !.backlog = Tail(r.backlog)],
          item |-> Head(r.backlog)]
    ELSE [out |-> "NotReady", r |-> [r EXCEPT !.reader = cur], item |-> NoConn]

\* ---------------------------------------------------------- Accept future
\* accept(state, rid)
accept(rid) == [accept_state |-> "Eager", rid |-> rid]

\* Accept::poll in the Pending state, polled by task `cur`, `p` the outcome
\* of poll_accept on the listener at key `k`: the new accept_state, the
\* table, the outcome, the accepted connection and the calls made on the
\* listener.
AcceptPending(tbl, k, p, cur) ==
  CASE p.out = "Ready" ->
         [accept_state |-> "Done",
          table |-> [tbl EXCEPT ![k] = untrack_task(p.r)],
          out |-> "Ready", item |-> p.item,
          calls |-> <<"poll_accept", "untrack_task">>]
    [] p.out = "NotReady" ->
         LET t == track_task(p.r, cur) IN
         [accept_state |-> "Pending",
          table |-> [tbl EXCEPT ![k] = t.r],
          out |-> IF t.ok THEN "NotReady" ELSE "ErrConcurrent",
          item |-> NoConn,
          calls |-> <<"poll_accept", "track_task">>]
    [] OTHER ->
         [accept_state |-> "Done",
          table |-> [tbl EXCEPT ![k] = untrack_task(p.r)],
          out |-> "Err", item |-> NoConn,
          calls |-> <<"poll_accept", "untrack_task">>]

\* An Eager branch that tracks and untracks the polling task as the Pending
\* branch does.
AcceptEagerTracking(tbl, k, p) == AcceptPending(tbl, k, p, p.r.reader)

\* Accept::poll in the Eager state.
AcceptEager(tbl, k, p) ==
  CASE p.out = "Ready" ->
         [accept_state |-> "Done", table |-> [tbl EXCEPT ![k] = p.r],
          out |-> "Ready", item |-> p.item, calls |-> <<"poll_accept">>]
    [] p.out = "NotReady" ->
         [accept_state |-> "Pending", table |-> [tbl EXCEPT ![k] = p.r],
          out |-> "NotReady", item |-> NoConn, calls |-> <<"poll_accept">>]
    [] OTHER ->
         [accept_state |-> "Done", table |-> tbl, out |-> "Err",
          item |-> NoConn, calls |-> <<"poll_accept">>]

\* An Accept::poll that keeps waiting for a listener it does not find.
AcceptPollWaiting(accept_state, rid, tbl, cur, sockerr) ==
  LET listener_resource == TableGet(tbl, rid, "tcpListener")
      k == Key(tbl, rid)
      p == poll_accept(listener_resource, cur, sockerr)
  IN
  IF listener_resource = NoRes
    THEN [accept_state |-> accept_state, table |-> tbl, out |-> "NotReady",
          item |-> NoConn, calls |-> <<>>]
  ELSE IF accept_state = "Eager"
    THEN AcceptEager(tbl, k, p)
    ELSE AcceptPending(tbl, k, p, cur)

\* Accept::poll after the Done check, with the table locked: the lookup of
\* the listener, then the branch of the accept_state.
AcceptPoll(accept_state, rid, tbl, cur, sockerr) ==
  LET listener_resource == TableGet(tbl, rid, "tcpListener")
      k == Key(tbl, rid)
      p == poll_accept(listener_resource, cur, sockerr)
  IN
  IF listener_resource = NoRes
    THEN [accept_state |-> accept_state, table |-> tbl, out |-> "ErrClosed",
          item |-> NoConn, calls |-> <<>>]
  ELSE IF accept_state = "Eager"
    THEN AcceptEager(tbl, k, p)
    ELSE AcceptPending(tbl, k, p, cur)

\* ------------------------------------------------------- collaborators
\* state.check_net(hostname, port): the permission check allows the call.
check_net(hostname, port) == hostname # "blocked.example"

\* resolve_addr(hostname, port): the address, or NoAddr when it fails.
resolve_addr(hostname, port) ==
  IF hostname = "nohost.invalid" THEN NoAddr ELSE SocketAddr(LOOPBACK, port)

\* The OS queues a connection on a listening socket and the reactor notifies
\* the task registered as its reader.
Enqueue(r, conn) ==
  [r |-> [r EXCEPT !.backlog = Append(@, conn), !.reader = NoTask],
   notified |-> IF r.reader # NoTask THEN {r.reader} ELSE {}]

\* ---------------------------------------------------------------- state
VARIABLES
  table,     \* the resource table: rid -> resource
  next_rid,  \* the rid the table hands out next
  ops,       \* the Accept futures (with the and_then of op_accept)
  dials,     \* the dial futures
  lock,      \* who holds the resource table's lock
  nconn,     \* connections initiated so far
  ev         \* the step whose result is being handed back, or NoEv

vars == <<table, next_rid, ops, dials, lock, nconn, ev>>

\* who: the thread; op: the handler or future; arg: its arguments (for a
\* poll: the accept_state it started in, and the rid); ret: what the step
\* returned; eff: the lock, collaborator and socket calls it made, in order.
\* json: the value it resolved with; notified: the tasks notify_task
\* notified.
EvOut(who, op, arg, ret, eff, json, notified) ==
  [who |-> who, op |-> op, arg |-> arg, ret |-> ret, eff |-> eff,
   json |-> json, notified |-> notified]
Ev(who, op, arg, ret, eff) == EvOut(who, op, arg, ret, eff, NoJson, {})
NoEv == Ev(Free, "none", <<>>, "none", <<>>)

\* lock_resource_table() gives a guard that is dropped where its scope ends:
\* "lock" and "unlock" in a transcript.  Who holds the lock after a step of
\* `who` with the transcript `eff`.
Locks(eff) == Cardinality({i \in DOMAIN eff : eff[i] = "lock"})
Unlocks(eff) == Cardinality({i \in DOMAIN eff : eff[i] = "unlock"})
Holder(who, eff) == IF Locks(eff) > Unlocks(eff) THEN who ELSE Free

\* The lock after the step: a step that never locked leaves it alone.
LockAfter(who, eff) == IF Locks(eff) = 0 THEN lock ELSE Holder(who, eff)

NoOp ==
  [accept_state |-> "Eager", rid |-> AsU32(0), pc |-> "none", notified |-> FALSE,
   fin |-> FALSE, item |-> NoConn, json |-> NoJson]

NoDial == [pc |-> "none", hostname |-> "", port |-> 0, json |-> NoJson]

Init ==
  /\ table = [r \in Rids |-> IF r = 0 THEN StdinResource ELSE NoRes]
  /\ next_rid = 1
  /\ ops = [o \in OpIds |-> NoOp]
  /\ dials = [d \in DialIds |-> NoDial]
  /\ lock = Free
  /\ nconn = 0
  /\ ev = NoEv

\* The tasks in `S` are notified: the scheduler will poll them.  Notifying a
\* task whose future has completed does nothing.
Notify(o_s, S) ==
  [o \in OpIds |-> IF o \in S /\ ~o_s[o].fin
                     THEN [o_s[o] EXCEPT !.notified = TRUE]
                     ELSE o_s[o]]

\* ----------------------------------------------- the bound on the rids
BacklogLen(r) == IF r.kind = "tcpListener" THEN Len(r.backlog) ELSE 0

QueuedConns ==
  LET f[i \in 0..MaxRid] ==
        IF i = 0 THEN 0 ELSE f[i - 1] + BacklogLen(table[i])
  IN f[MaxRid]

\* The rids the work in flight can still ask for.
Reserved ==
  QueuedConns
  + Cardinality({o \in OpIds : ops[o].pc = "accepted"})
  + 2 * Cardinality({d \in DialIds : dials[d].pc = "pending"})

RidsLeft(n) == (next_rid - 1) + Reserved + n <= MaxRid

\* The ports listening sockets hold.
PortsInUse ==
  {table[r].local_addr.port : r \in {x \in Rids : table[x].kind = "tcpListener"}}

\* -------------------------------------------------------------- op_listen
\* TcpListener::bind(&addr): the port the socket gets; 0 when the bind fails.
\* Port 0 asks the OS for a free port.
BindPort(port, inuse) ==
  LET free == (EphemeralListen..(EphemeralListen + MaxRid)) \ inuse IN
  IF port = 0
    THEN CHOOSE p \in free : \A q \in free : p <= q
    ELSE (IF port \in inuse THEN 0 ELSE port)

\* op_listen: the transport assertion, the permission check, the blocking
\* resolve_addr(..).wait(), bind, local_addr, the TcpListenerResource,
\* lock_resource_table() and table.add.
op_listen(tbl, nxt, transport, hostname, port, inuse) ==
  LET addr == resolve_addr(hostname, port)
      p == BindPort(addr.port, inuse)
      a == TableAdd(tbl, nxt, TcpListenerResource(SocketAddr(addr.ip, p)))
  IN
  IF transport # TCP
    THEN [table |-> tbl, next_rid |-> nxt, ret |-> "panic", eff |-> <<>>,
          json |-> NoJson]
  ELSE IF ~check_net(hostname, port)
    THEN [table |-> tbl, next_rid |-> nxt, ret |-> "PermissionDenied",
          eff |-> <<"check_net">>, json |-> NoJson]
  ELSE IF addr = NoAddr
    THEN [table |-> tbl, next_rid |-> nxt, ret |-> "ResolveErr",
          eff |-> <<"check_net", "resolve_addr">>, json |-> NoJson]
  ELSE IF p = 0
    THEN [table |-> tbl, next_rid |-> nxt, ret |-> "Err",
          eff |-> <<"check_net", "resolve_addr", "bind">>, json |-> NoJson]
  ELSE [table |-> a.table, next_rid |-> a.rid + 1, ret |-> "ok",
        eff |-> <<"check_net", "resolve_addr", "bind", "lock", "add", "unlock">>,
        json |-> Json(a.rid, to_string(SocketAddr(addr.ip, p)), "")]

ListenCall(transport, hostname, port) ==
  /\ ev = NoEv
  /\ RidsLeft(1)
  /\ lock = Free
  /\ LET r == op_listen(table, next_rid, transport, hostname, port, PortsInUse) IN
     /\ table' = r.table
     /\ next_rid' = r.next_rid
     /\ ev' = EvOut(MAIN, "listen", <<transport, hostname, port>>, r.ret, r.eff,
                    r.json, {})
     /\ lock' = LockAfter(MAIN, r.eff)
  /\ UNCHANGED <<ops, dials, nconn>>

\* -------------------------------------------------------------- op_accept
FreeOps == {o \in OpIds : ops[o].pc = "none"}
NewOp == CHOOSE o \in FreeOps : \A x \in FreeOps : o <= x

\* A check that takes any rid for a listener.
AcceptCheckAny(tbl, rid) == "ok"

\* op_accept's check of the rid under the lock: BadResource, or the Accept
\* future.
AcceptCheck(tbl, rid) ==
  IF TableGet(tbl, rid, "tcpListener") = NoRes THEN "BadResource" ELSE "ok"

\* op_accept: the check, the future (spawned as a task: its first poll is
\* due) and the return, which drops the guard.
AcceptCall(rid) ==
  /\ ev = NoEv
  /\ FreeOps # {}
  /\ lock = Free
  /\ LET ret == AcceptCheck(table, AsU32(rid)) IN
     /\ ops' = IF ret = "ok"
                 THEN [ops EXCEPT ![NewOp] =
                         [NoOp EXCEPT !.accept_state = accept(AsU32(rid)).accept_state,
                                      !.rid = accept(AsU32(rid)).rid,
                                      !.pc = "idle", !.notified = TRUE]]
                 ELSE ops
     /\ ev' = Ev(MAIN, "accept", <<AsU32(rid)>>, ret, <<"lock", "unlock">>)
  /\ lock' = LockAfter(MAIN, <<"lock", "unlock">>)
  /\ UNCHANGED <<table, next_rid, dials, nconn>>

\* ------------------------------------------------------------ Accept::poll
\* An Accept::poll that keeps the guard when it returns NotReady.
AcceptFuturePollKeepsGuard(accept_state, rid, tbl, cur, sockerr) ==
  LET r == AcceptPoll(accept_state, rid, tbl, cur, sockerr) IN
  IF accept_state = "Done"
    THEN [accept_state |-> accept_state, table |-> tbl, out |-> "panic",
          item |-> NoConn, eff |-> <<>>]
    ELSE [accept_state |-> r.accept_state, table |-> r.table, out |-> r.out,
          item |-> r.item,
          eff |-> IF r.out = "NotReady"
                    THEN <<"lock">> \o r.calls
                    ELSE <<"lock">> \o r.calls \o <<"unlock">>]

\* An Accept::poll without the Done check.
AcceptFuturePollNoDoneCheck(accept_state, rid, tbl, cur, sockerr) ==
  LET r == AcceptPoll(accept_state, rid, tbl, cur, sockerr) IN
  [accept_state |-> r.accept_state, table |-> r.table, out |-> r.out,
   item |-> r.item, eff |-> <<"lock">> \o r.calls \o <<"unlock">>]

\* Accept::poll: the Done check, lock_resource_table(), the poll and the
\* return, which drops the guard.
AcceptFuturePoll(accept_state, rid, tbl, cur, sockerr) ==
  LET r == AcceptPoll(accept_state, rid, tbl, cur, sockerr) IN
  IF accept_state = "Done"
    THEN [accept_state |-> accept_state, table |-> tbl, out |-> "panic",
          item |-> NoConn, eff |-> <<>>]
    ELSE [accept_state |-> r.accept_state, table |-> r.table, out |-> r.out,
          item |-> r.item,
          eff |-> <<"lock">> \o r.calls \o <<"unlock">>]

\* A poll of Accept future `o`.  A final outcome completes the future; a
\* panic leaves it as it was.
Poll(o, sockerr) ==
  /\ ev = NoEv
  /\ ops[o].pc = "idle"
  /\ ops[o].accept_state # "Done" => lock = Free
  /\ LET r == AcceptFuturePoll(ops[o].accept_state, ops[o].rid, table, o, sockerr)
     IN
     /\ table' = r.table
     /\ ops' = [ops EXCEPT
                  ![o].accept_state = r.accept_state,
                  ![o].item = r.item,
                  ![o].notified = FALSE,
                  ![o].fin = IF r.out = "panic" THEN @ ELSE r.out # "NotReady",
                  ![o].pc = IF r.out = "Ready" THEN "accepted" ELSE "idle"]
     /\ ev' = Ev(AcceptTask(o), "poll", <<ops[o].accept_state, ops[o].rid>>,
                 r.out, r.eff)
     /\ lock' = LockAfter(AcceptTask(o), r.eff)
  /\ UNCHANGED <<next_rid, dials, nconn>>

\* The scheduler polls a task that was notified.
PollScheduled(o, sockerr) == ops[o].notified /\ ~ops[o].fin /\ Poll(o, sockerr)

\* A poll nothing asked for: the Future contract allows it.
PollSpurious(o, sockerr) == ~ops[o].notified /\ ~ops[o].fin /\ Poll(o, sockerr)

\* A caller polls the future again after it returned its final outcome.
PollAfterFinal(o, sockerr) == ops[o].fin /\ Poll(o, sockerr)

\* An and_then that locks the table while the guard of the poll is alive.
AcceptThenRelock(tbl, nxt, item, ok) ==
  IF ~ok
    THEN [table |-> tbl, next_rid |-> nxt, ret |-> "Err", eff |-> <<>>,
          json |-> NoJson]
    ELSE
      LET local_addr == item.local
          remote_addr == item.peer
          a == TableAdd(tbl, nxt, TcpStreamResource(item.local, item.peer))
      IN
      [table |-> a.table, next_rid |-> a.rid + 1, ret |-> "ok",
       eff |-> <<"lock", "lock", "add", "unlock", "unlock">>,
       json |-> Json(a.rid, to_string(local_addr), to_string(remote_addr))]

\* An and_then that gives the two addresses under each other's key.
AcceptThenSwapped(tbl, nxt, item, ok) ==
  IF ~ok
    THEN [table |-> tbl, next_rid |-> nxt, ret |-> "Err", eff |-> <<>>,
          json |-> NoJson]
    ELSE
      LET local_addr == item.local
          remote_addr == item.peer
          a == TableAdd(tbl, nxt, TcpStreamResource(item.local, item.peer))
      IN
      [table |-> a.table, next_rid |-> a.rid + 1, ret |-> "ok",
       eff |-> <<"lock", "add", "unlock">>,
       json |-> Json(a.rid, to_string(remote_addr), to_string(local_addr))]

\* An and_then that reports success without adding the stream.
AcceptThenNoAdd(tbl, nxt, item, ok) ==
  [table |-> tbl, next_rid |-> nxt, ret |-> IF ok THEN "ok" ELSE "Err",
   eff |-> IF ok THEN <<"lock", "unlock">> ELSE <<>>,
   json |-> IF ok THEN Json(nxt, to_string(item.local), to_string(item.peer))
                  ELSE NoJson]

\* The and_then of op_accept: local_addr()?, peer_addr()?,
\* lock_resource_table() and table.add.  `ok`: the socket still gives its
\* addresses.
AcceptThen(tbl, nxt, item, ok) ==
  IF ~ok
    THEN [table |-> tbl, next_rid |-> nxt, ret |-> "Err", eff |-> <<>>,
          json |-> NoJson]
    ELSE
      LET local_addr == item.local
          remote_addr == item.peer
          a == TableAdd(tbl, nxt, TcpStreamResource(item.local, item.peer))
      IN
      [table |-> a.table, next_rid |-> a.rid + 1, ret |-> "ok",
       eff |-> <<"lock", "add", "unlock">>,
       json |-> Json(a.rid, to_string(local_addr), to_string(remote_addr))]

AcceptAdd(o, ok) ==
  /\ ev = NoEv
  /\ ops[o].pc = "accepted"
  /\ ok => lock = Free
  /\ LET r == AcceptThen(table, next_rid, ops[o].item, ok) IN
     /\ table' = r.table
     /\ next_rid' = r.next_rid
     /\ ev' = EvOut(AcceptTask(o), "and_then", <<>>, r.ret, r.eff, r.json, {})
     /\ ops' = [ops EXCEPT ![o].pc = "idle", ![o].item = NoConn,
                           ![o].json = r.json]
     /\ lock' = LockAfter(AcceptTask(o), r.eff)
  /\ UNCHANGED <<dials, nconn>>

\* ------------------------------------------------------------ op_shutdown
\* An op_shutdown that looks the rid up before it matches on `how`.
ShutdownApplyLookupFirst(tbl, rid, how, ok) ==
  LET resource == TableGet(tbl, rid, "stream")
      k == Key(tbl, rid)
  IN
  IF resource = NoRes
    THEN [table |-> tbl, ret |-> "BadResource", eff |-> <<"lock", "unlock">>]
  ELSE IF how \notin {0, 1}
    THEN [table |-> tbl, ret |-> "panic", eff |-> <<"lock">>]
  ELSE IF resource.variant = "TcpStream" THEN
    IF ok
      THEN [table |-> [tbl EXCEPT ![k] =
                         IF how = 0 THEN [resource EXCEPT !.rd = FALSE]
                                    ELSE [resource EXCEPT !.wr = FALSE]],
            ret |-> "ok", eff |-> <<"lock", "shutdown", "unlock">>]
      ELSE [table |-> tbl, ret |-> "Err", eff |-> <<"lock", "shutdown", "unlock">>]
  ELSE [table |-> tbl, ret |-> "BadResource", eff |-> <<"lock", "unlock">>]

\* An op_shutdown that closes both directions (Shutdown::Both).
ShutdownApplyBoth(tbl, rid, how, ok) ==
  LET resource == TableGet(tbl, rid, "stream")
      k == Key(tbl, rid)
  IN
  IF how \notin {0, 1} THEN [table |-> tbl, ret |-> "panic", eff |-> <<>>]
  ELSE IF resource = NoRes
    THEN [table |-> tbl, ret |-> "BadResource", eff |-> <<"lock", "unlock">>]
  ELSE IF resource.variant = "TcpStream" THEN
    IF ok
      THEN [table |-> [tbl EXCEPT ![k] =
                         [resource EXCEPT !.rd = FALSE, !.wr = FALSE]],
            ret |-> "ok", eff |-> <<"lock", "shutdown", "unlock">>]
      ELSE [table |-> tbl, ret |-> "Err", eff |-> <<"lock", "shutdown", "unlock">>]
  ELSE [table |-> tbl, ret |-> "BadResource", eff |-> <<"lock", "unlock">>]

\* op_shutdown: the match on `how`, lock_resource_table(), the lookup and
\* TcpStream::shutdown(stream, shutdown_mode); `ok`: the OS call succeeds.
ShutdownApply(tbl, rid, how, ok) ==
  LET resource == TableGet(tbl, rid, "stream")
      k == Key(tbl, rid)
  IN
  IF how \notin {0, 1} THEN [table |-> tbl, ret |-> "panic", eff |-> <<>>]
  ELSE IF resource = NoRes
    THEN [table |-> tbl, ret |-> "BadResource", eff |-> <<"lock", "unlock">>]
  ELSE IF resource.variant = "TcpStream" THEN
    IF ok
      THEN [table |-> [tbl EXCEPT ![k] =
                         IF how = 0 THEN [resource EXCEPT !.rd = FALSE]
                                    ELSE [resource EXCEPT !.wr = FALSE]],
            ret |-> "ok", eff |-> <<"lock", "shutdown", "unlock">>]
      ELSE [table |-> tbl, ret |-> "Err", eff |-> <<"lock", "shutdown", "unlock">>]
  ELSE [table |-> tbl, ret |-> "BadResource", eff |-> <<"lock", "unlock">>]

ShutdownCall(rid, how, ok) ==
  /\ ev = NoEv
  /\ how \in {0, 1} => lock = Free
  /\ ok \/ ShutdownApply(table, AsU32(rid), how, TRUE).ret = "ok"
  /\ LET r == ShutdownApply(table, AsU32(rid), how, ok) IN
     /\ table' = r.table
     /\ ev' = Ev(MAIN, "shutdown", <<AsU32(rid), how>>, r.ret, r.eff)
     /\ lock' = LockAfter(MAIN, r.eff)
  /\ UNCHANGED <<next_rid, ops, dials, nconn>>

\* ------------------------------------------------------------------ close
\* table.remove(rid): the entry leaves the table and is dropped.
TableRemove(tbl, rid) ==
  LET k == Key(tbl, rid) IN
  IF k = -1 \/ tbl[k] = NoRes
    THEN [table |-> tbl, dropped |-> NoRes]
    ELSE [table |-> [tbl EXCEPT ![k] = NoRes], dropped |-> tbl[k]]

\* The close op: lock_resource_table(), the removal, the drop.
CloseCall(rid) ==
  /\ ev = NoEv
  /\ lock = Free
  /\ LET r == TableRemove(table, AsU32(rid)) IN
     /\ table' = r.table
     /\ ops' = Notify(ops, DropResource(r.dropped))
     /\ ev' = EvOut(MAIN, "close", <<AsU32(rid)>>,
                    IF r.dropped = NoRes THEN "BadResource" ELSE "ok",
                    <<"lock", "remove", "unlock">>,
                    NoJson, DropResource(r.dropped))
  /\ lock' = LockAfter(MAIN, <<"lock", "remove", "unlock">>)
  /\ UNCHANGED <<next_rid, dials, nconn>>

\* ---------------------------------------------------------------- op_dial
FreeDials == {d \in DialIds : dials[d].pc = "none"}
NewDial == CHOOSE d \in FreeDials : \A x \in FreeDials : d <= x

\* An op_dial that asserts the transport after the permission check.
op_dial_late_assert(transport, hostname, port) ==
  IF ~check_net(hostname, port)
    THEN [ret |-> "PermissionDenied", eff |-> <<"check_net">>]
  ELSE IF transport # TCP THEN [ret |-> "panic", eff |-> <<"check_net">>]
  ELSE [ret |-> "ok", eff |-> <<"check_net">>]

\* An op_dial that goes on after check_net denied the call.
op_dial_unchecked(transport, hostname, port) ==
  IF transport # TCP THEN [ret |-> "panic", eff |-> <<>>]
  ELSE [ret |-> "ok", eff |-> <<"check_net">>]

\* op_dial, the handler: the transport assertion and the permission check;
\* the future it returns has not run yet.
op_dial(transport, hostname, port) ==
  IF transport # TCP THEN [ret |-> "panic", eff |-> <<>>]
  ELSE IF ~check_net(hostname, port)
    THEN [ret |-> "PermissionDenied", eff |-> <<"check_net">>]
    ELSE [ret |-> "ok", eff |-> <<"check_net">>]

DialCall(transport, hostname, port) ==
  /\ ev = NoEv
  /\ FreeDials # {}
  /\ RidsLeft(2)
  /\ LET r == op_dial(transport, hostname, port) IN
     /\ dials' = IF r.ret = "ok"
                   THEN [dials EXCEPT ![NewDial] =
                           [NoDial EXCEPT !.pc = "pending",
                                          !.hostname = hostname,
                                          !.port = port]]
                   ELSE dials
     /\ ev' = Ev(MAIN, "dial", <<transport, hostname, port>>, r.ret, r.eff)
     /\ lock' = LockAfter(MAIN, r.eff)
  /\ UNCHANGED <<table, next_rid, ops, nconn>>

\* The listener a connection to `addr` reaches: its rid, or -1.
ListenerAt(tbl, addr) ==
  LET L == {r \in DOMAIN tbl : tbl[r].kind = "tcpListener" /\ tbl[r].local_addr = addr}
  IN IF L = {} THEN -1 ELSE CHOOSE r \in L : TRUE

\* The dial future: resolve_addr, TcpStream::connect, then the closure with
\* local_addr()?, peer_addr()?, lock_resource_table() and table.add.
\* `client`: the address the OS gives the connecting socket; `ok`: the socket
\* still gives its addresses.
DialRun(tbl, nxt, hostname, port, client, ok) ==
  LET addr == resolve_addr(hostname, port)
      l == ListenerAt(tbl, addr)
      d == Enqueue(tbl[l], Conn(addr, client))
      connected == [tbl EXCEPT ![l] = d.r]
      local_addr == client
      remote_addr == addr
      a == TableAdd(connected, nxt, TcpStreamResource(client, addr))
  IN
  IF addr = NoAddr
    THEN [table |-> tbl, next_rid |-> nxt, notified |-> {}, conns |-> 0,
          ret |-> "ResolveErr", eff |-> <<"resolve_addr">>, json |-> NoJson]
  ELSE IF l = -1
    THEN [table |-> tbl, next_rid |-> nxt, notified |-> {}, conns |-> 0,
          ret |-> "Err", eff |-> <<"resolve_addr", "connect">>,
          json |-> NoJson]
  ELSE IF ~ok
    THEN [table |-> connected, next_rid |-> nxt, notified |-> d.notified,
          conns |-> 1, ret |-> "Err", eff |-> <<"resolve_addr", "connect">>,
          json |-> NoJson]
  ELSE [table |-> a.table, next_rid |-> a.rid + 1, notified |-> d.notified,
        conns |-> 1, ret |-> "ok",
        eff |-> <<"resolve_addr", "connect", "lock", "add", "unlock">>,
        json |-> Json(a.rid, to_string(local_addr), to_string(remote_addr))]

DialFinish(d, ok) ==
  /\ ev = NoEv
  /\ dials[d].pc = "pending"
  /\ lock = Free
  /\ LET r == DialRun(table, next_rid, dials[d].hostname, dials[d].port,
                      SocketAddr(LOOPBACK, EphemeralClient + nconn), ok)
     IN
     /\ nconn + r.conns <= MaxConns
     /\ table' = r.table
     /\ next_rid' = r.next_rid
     /\ ops' = Notify(ops, r.notified)
     /\ nconn' = nconn + r.conns
     /\ ev' = EvOut(DialTask(d), "dial_future",
                    <<dials[d].hostname, dials[d].port>>, r.ret, r.eff,
                    r.json, {})
     /\ dials' = [dials EXCEPT ![d] = [NoDial EXCEPT !.pc = "done",
                                                     !.json = r.json]]
     /\ lock' = LockAfter(DialTask(d), r.eff)

\* ----------------------------------------------------------- the network
Listeners == {r \in Rids : table[r].kind = "tcpListener"}

\* A client outside this process connects to listener `r`.
ClientConnect(r) ==
  /\ ev = NoEv
  /\ r \in Listeners
  /\ nconn < MaxConns
  /\ RidsLeft(1)
  /\ LET d == Enqueue(table[r],
                      Conn(table[r].local_addr,
                           SocketAddr(LOOPBACK, EphemeralClient + nconn)))
     IN
     /\ table' = [table EXCEPT ![r] = d.r]
     /\ ops' = Notify(ops, d.notified)
  /\ nconn' = nconn + 1
  /\ ev' = Ev(Free, "connect", <<r>>, "ok", <<>>)
  /\ UNCHANGED <<next_rid, dials, lock>>

\* The result of the last step reaches its caller: the script for a handler
\* (the JsonOp it returns), the executor for a poll.
Respond ==
  /\ ev # NoEv
  /\ ev' = NoEv
  /\ UNCHANGED <<table, next_rid, ops, dials, lock, nconn>>

Next ==
  \/ \E t \in ArgTransports, h \in ArgHostnames, p \in ListenPorts : ListenCall(t, h, p)
  \/ \E rid \in ArgRids : AcceptCall(rid)
  \/ \E o \in OpIds, sockerr \in BOOLEAN : PollScheduled(o, sockerr)
  \/ \E o \in OpIds, sockerr \in BOOLEAN : PollSpurious(o, sockerr)
  \/ \E o \in OpIds, sockerr \in BOOLEAN : PollAfterFinal(o, sockerr)
  \/ \E o \in OpIds, ok \in BOOLEAN : AcceptAdd(o, ok)
  \/ \E rid \in ArgRids, how \in ArgHows, ok \in BOOLEAN : ShutdownCall(rid, how, ok)
  \/ \E rid \in ArgRids \ {0} : CloseCall(rid)
  \/ \E r \in Rids : ClientConnect(r)
  \/ \E t \in ArgTransports, h \in ArgHostnames, p \in DialPorts : DialCall(t, h, p)
  \/ \E d \in DialIds, ok \in BOOLEAN : DialFinish(d, ok)
  \/ Respond

Spec == Init /\ [][Next]_vars

\* ------------------------------------------------------------- scheduling
\* The executor polls every notified task, a poll that returned a connection
\* runs its and_then, a connect that was started ends, and every result is
\* handed back.  Spurious polls and polls after completion are under no
\* fairness.
Fairness ==
  /\ WF_vars(Respond)
  /\ \A o \in OpIds : SF_vars(\E e \in BOOLEAN : PollScheduled(o, e))
  /\ \A o \in OpIds : SF_vars(\E ok \in BOOLEAN : AcceptAdd(o, ok))

FairSpec == Spec /\ Fairness

\* ----------------------------------------------------------------- claims
Created(o) == ops[o].pc # "none"

\* Accept future `o` returned "still waiting" and waits for its next poll.
Suspended(o) ==
  /\ ops[o].pc = "idle"
  /\ ops[o].accept_state = "Pending"
  /\ ~ops[o].fin

\* The rid of Accept future `o` resolves to a listener.
Resolves(o) == TableGet(table, ops[o].rid, "tcpListener") # NoRes

\* The last step was a poll of `o` that returned `ret`.
Polled(o, ret) == ev.who = AcceptTask(o) /\ ev.op = "poll" /\ ev.ret = ret

\* C1: an Accept future that returned "still waiting", however many times it
\* was polled before, and whose listener is then removed from the table,
\* eventually resolves with "Listener has been closed".
C1_RemovedListenerResolvesAccept ==
  \A o \in OpIds : (Suspended(o) /\ ~Resolves(o)) ~> Polled(o, "ErrClosed")

\* A step of the kind `op` was taken (every step starts from ev = NoEv).
Step(op) == ev = NoEv /\ ev'.op = op

\* Accept future `o` was polled in this step.
PollStep(o) == Step("poll") /\ ev'.who = AcceptTask(o)

\* The names in a transcript.
Calls(eff) == {eff[i] : i \in DOMAIN eff}

\* The task slot of the listener `rid` resolves to in `tbl`.
Slot(tbl, rid) == TableGet(tbl, rid, "tcpListener").task

\* The Accept futures suspended on the listener at key `r`.
SuspendedOn(r) == {o \in OpIds : Suspended(o) /\ Key(table, ops[o].rid) = r}

\* C2: a poll that calls track_task on a listener whose slot is occupied
\* returns "Another accept task is ongoing" and leaves the slot as it was;
\* no step changes an occupied slot to another task.
C2_TrackTaskOccupiedFails ==
  [][/\ \A o \in OpIds :
          (/\ PollStep(o)
           /\ Resolves(o)
           /\ Slot(table, ops[o].rid) # NoTask
           /\ "track_task" \in Calls(ev'.eff))
          => /\ ev'.ret = "ErrConcurrent"
             /\ Slot(table', ops[o].rid) = Slot(table, ops[o].rid)
     /\ \A r \in Listeners :
          table[r].task # NoTask /\ table'[r].kind = "tcpListener"
          => table'[r].task \in {NoTask, table[r].task}]_vars

\* A Pending accept is refused while another task holds the slot.
C2_Witness ==
  \E o \in OpIds :
    /\ Polled(o, "ErrConcurrent")
    /\ Resolves(o)
    /\ Slot(table, ops[o].rid) \notin {NoTask, o}

\* C3: two Accept futures are never suspended on the same listener, the
\* second one is refused instead.
C3_SecondAcceptFailsFast ==
  \A r \in Listeners : Cardinality(SuspendedOn(r)) <= 1

\* C4: the task slot of every listener in the table is set if and only if
\* exactly one Accept future is suspended on that listener.
C4_SlotIffOneSuspended ==
  \A r \in Listeners :
    table[r].task # NoTask <=> Cardinality(SuspendedOn(r)) = 1

C6_UnresolvedFailsClosed ==
  [][\A o \in OpIds :
       (PollStep(o) /\ ev'.arg[1] \in {"Eager", "Pending"} /\ ~Resolves(o))
       => /\ ev'.ret = "ErrClosed"
          /\ "poll_accept" \notin Calls(ev'.eff)
          /\ table' = table]_vars

\* A Pending accept, which found its listener at an earlier poll, finds it
\* gone.
C6_Witness ==
  \E o \in OpIds :
    Polled(o, "ErrClosed") /\ ev.arg[1] = "Pending" /\ ~Resolves(o)

\* C7: op_accept on a rid that is not a listener, and op_shutdown (how 0 or
\* 1) on a rid that is not a TcpStream, return BadResource and change
\* nothing: no Accept future, no entry added or removed, no socket touched.
C7_BadResource ==
  [][/\ (Step("accept") /\ TableGet(table, ev'.arg[1], "tcpListener") = NoRes)
        => /\ ev'.ret = "BadResource"
           /\ UNCHANGED <<table, next_rid, ops, dials, nconn>>
     /\ (/\ Step("shutdown")
         /\ ev'.arg[2] \in {0, 1}
         /\ \/ TableGet(table, ev'.arg[1], "stream") = NoRes
            \/ TableGet(table, ev'.arg[1], "stream").variant # "TcpStream")
        => /\ ev'.ret = "BadResource"
           /\ "shutdown" \notin Calls(ev'.eff)
           /\ UNCHANGED <<table, next_rid, ops, dials, nconn>>]_vars

\* op_accept was refused on a rid that holds a stream.
C7_Witness ==
  /\ ev.op = "accept"
  /\ ev.ret = "BadResource"
  /\ TableGet(table, ev.arg[1], "stream") # NoRes

\* C8: accept_state only goes from Eager to Pending or Done and from Pending
\* to Done; a poll in Done panics without locking or reading the table.
C8_PhaseForward ==
  [][\A o \in OpIds :
       /\ ops'[o].accept_state # ops[o].accept_state
          => <<ops[o].accept_state, ops'[o].accept_state>> \in
               {<<"Eager", "Pending">>, <<"Eager", "Done">>, <<"Pending", "Done">>}
       /\ (PollStep(o) /\ ev'.arg[1] = "Done")
          => /\ ev'.ret = "panic"
             /\ ev'.eff = <<>>
             /\ table' = table
             /\ ops'[o].accept_state = "Done"]_vars

\* A completed Accept future was polled again.
C8_Witness ==
  \E o \in OpIds : Polled(o, "panic") /\ ops[o].accept_state = "Done"

\* C9: when check_net denies (hostname, port), op_listen and op_dial return
\* the permission error having called nothing but check_net, and neither the
\* table nor the futures change.
C9_DeniedBeforeSocket ==
  [][((Step("listen") \/ Step("dial"))
      /\ ev'.arg[1] = TCP
      /\ ~check_net(ev'.arg[2], ev'.arg[3]))
     => /\ ev'.ret = "PermissionDenied"
        /\ ev'.eff = <<"check_net">>
        /\ UNCHANGED <<table, next_rid, ops, dials, nconn>>]_vars

\* op_listen was denied while a listener exists that a bind could clash with.
C9_Witness ==
  /\ ev.op = "listen"
  /\ ev.ret = "PermissionDenied"
  /\ Listeners # {}

\* What the table holds of a resource: for a listener the socket's queue and
\* reader belong to the OS and the reactor.
Entry(r) ==
  IF r.kind = "tcpListener"
    THEN [kind |-> r.kind, task |-> r.task, local_addr |-> r.local_addr]
    ELSE r

\* The step added `res` under one rid that was free and changed no other
\* entry.
AddedOnly(isNew(_)) ==
  \E k \in Rids :
    /\ table[k] = NoRes
    /\ isNew(table'[k])
    /\ \A r \in Rids \ {k} : Entry(table'[r]) = Entry(table[r])

IsNewListener(r) == r.kind = "tcpListener" /\ r.task = NoTask
IsNewStream(r) == r.kind = "stream" /\ r.variant = "TcpStream"

\* C10: a successful op_listen adds one listener with an empty task slot, a
\* successful accept (its and_then) or dial adds one TcpStream, each under a
\* rid that held nothing; no other entry changes, and the poll that took the
\* connection leaves the listener in the table with its address.
C10_AddsExactlyOne ==
  [][/\ (Step("listen") /\ ev'.ret = "ok") => AddedOnly(IsNewListener)
     /\ ((Step("and_then") \/ Step("dial_future")) /\ ev'.ret = "ok")
        => AddedOnly(IsNewStream)
     /\ \A o \in OpIds :
          (PollStep(o) /\ ev'.ret = "Ready")
          => LET k == Key(table, ops[o].rid) IN
             /\ table'[k].kind = "tcpListener"
             /\ table'[k].local_addr = table[k].local_addr
             /\ \A r \in Rids \ {k} : table'[r] = table[r]]_vars

\* An accept added its stream while its listener and another stream were in
\* the table.
C10_Witness ==
  \E o \in OpIds :
    /\ ev.who = AcceptTask(o)
    /\ ev.op = "and_then"
    /\ ev.ret = "ok"
    /\ Resolves(o)
    /\ Cardinality({r \in Rids : IsNewStream(table[r])}) >= 2

\* C11: a successful op_shutdown of a TcpStream with how 0 closes the read
\* direction only and with how 1 the write direction only; the rid keeps
\* the same stream (its addresses) and no other entry changes.
C11_HalfClose ==
  [][(Step("shutdown") /\ ev'.ret = "ok")
     => LET k == Key(table, ev'.arg[1]) IN
        /\ table[k].kind = "stream" /\ table[k].variant = "TcpStream"
        /\ ev'.arg[2] = 0 => table'[k] = [table[k] EXCEPT !.rd = FALSE]
        /\ ev'.arg[2] = 1 => table'[k] = [table[k] EXCEPT !.wr = FALSE]
        /\ \A r \in Rids \ {k} : table'[r] = table[r]]_vars

\* The read direction of a stream was closed after its write direction: one
\* direction closed by each call.
C11_Witness ==
  /\ ev.op = "shutdown"
  /\ ev.ret = "ok"
  /\ ev.arg[2] = 0
  /\ LET k == Key(table, ev.arg[1]) IN ~table[k].rd /\ ~table[k].wr

\* C13: op_listen and op_dial with a transport other than "tcp" panic, they
\* return no error value; nothing was called before the panic (no
\* check_net, no resolve_addr, no socket call) and nothing changes.
C13_TransportPanics ==
  [][((Step("listen") \/ Step("dial")) /\ ev'.arg[1] # TCP)
     => /\ ev'.ret = "panic"
        /\ ev'.eff = <<>>
        /\ UNCHANGED <<table, next_rid, ops, dials, nconn>>]_vars

\* op_dial panicked on a call the permission check would have denied.
C13_Witness ==
  /\ ev.op = "dial"
  /\ ev.ret = "panic"
  /\ ev.arg[1] # TCP
  /\ ~check_net(ev.arg[2], ev.arg[3])

\* C17: op_shutdown with `how` other than 0 or 1 panics whatever the rid
\* holds, before lock_resource_table() and the lookup; the table does not
\* change.
C17_ModeBeforeLookup ==
  [][(Step("shutdown") /\ ev'.arg[2] \notin {0, 1})
     => /\ ev'.ret = "panic"
        /\ ev'.eff = <<>>
        /\ UNCHANGED <<table, next_rid, ops, dials, nconn>>]_vars

\* op_shutdown panicked on a rid that is not in the table.
C17_Witness ==
  /\ ev.op = "shutdown"
  /\ ev.ret = "panic"
  /\ Key(table, ev.arg[1]) = -1

\* C15: a poll of a Pending Accept future whose own task is in the slot of
\* its listener, with no connection queued and no socket error, returns
\* "Another accept task is ongoing"; the slot keeps the task and the
\* accept_state stays Pending.
C15_RepollFailsAgainstItself ==
  [][\A o \in OpIds :
       (/\ PollStep(o)
        /\ ev'.arg[1] = "Pending"
        /\ Resolves(o)
        /\ Slot(table, ops[o].rid) = o
        /\ TableGet(table, ops[o].rid, "tcpListener").backlog = <<>>
        /\ ev'.ret # "Err")
       => /\ ev'.ret = "ErrConcurrent"
          /\ Slot(table', ops[o].rid) = o
          /\ ops'[o].accept_state = "Pending"]_vars

\* An accept was refused because of the task it had registered itself.
C15_Witness ==
  \E o \in OpIds :
    /\ Polled(o, "ErrConcurrent")
    /\ ev.arg[1] = "Pending"
    /\ Resolves(o)
    /\ Slot(table, ops[o].rid) = o
    /\ ops[o].accept_state = "Pending"

\* C18: the task slot of a listener that stays in the table is emptied only
\* by a poll of the Accept future whose task it holds.
C18_SlotClearedByOwner ==
  [][\A r \in Listeners :
       (/\ table[r].task # NoTask
        /\ table'[r].kind = "tcpListener"
        /\ table'[r].task = NoTask)
       => PollStep(table[r].task)]_vars

\* C19: a poll of an Accept future that returns a final outcome (a
\* connection, a socket error, "Listener has been closed" or "Another accept
\* task is ongoing") leaves the future Done.
C19_FinalOutcomeIsDone ==
  [][\A o \in OpIds :
       (PollStep(o) /\ ev'.ret \in {"Ready", "Err", "ErrClosed", "ErrConcurrent"})
       => ops'[o].accept_state = "Done"]_vars

\* C14: removing a listener from the table notifies exactly the task in its
\* slot, once, and nobody when the slot is empty; the entry, and with it the
\* slot, is gone afterwards, and no other Accept future changes.
C14_TeardownWakesSlotTask ==
  [][LET k == Key(table, ev'.arg[1]) IN
     (Step("close") /\ k # -1 /\ table[k].kind = "tcpListener")
     => /\ ev'.notified =
             (IF table[k].task # NoTask THEN {table[k].task} ELSE {})
        /\ table'[k] = NoRes
        /\ \A o \in OpIds :
             ops'[o] = IF o \in ev'.notified /\ ~ops[o].fin
                         THEN [ops[o] EXCEPT !.notified = TRUE]
                         ELSE ops[o]]_vars

\* The removal notified a suspended accept, which is now due for a poll.
C14_Witness ==
  /\ ev.op = "close"
  /\ \E o \in ev.notified : Suspended(o) /\ ops[o].notified /\ ~Resolves(o)

\* The streams under rids `x` and `y` are the two ends of one connection.
SameConnection(x, y) ==
  /\ x \in Rids /\ y \in Rids
  /\ IsNewStream(table[x]) /\ IsNewStream(table[y])
  /\ table[x].local = table[y].peer
  /\ table[x].peer = table[y].local

\* C12: when an accept and a dial have resolved with the two ends of one
\* connection, the accept's remoteAddr is the dial's localAddr and the
\* accept's localAddr is the dial's remoteAddr, which is the localAddr
\* op_listen returned for the listener.
C12_RoundTrip ==
  \A o \in OpIds, d \in DialIds :
    SameConnection(ops[o].json.rid, dials[d].json.rid)
    => /\ ops[o].json.remoteAddr = dials[d].json.localAddr
       /\ ops[o].json.localAddr = dials[d].json.remoteAddr
       /\ Resolves(o)
          => ops[o].json.localAddr =
               to_string(TableGet(table, ops[o].rid, "tcpListener").local_addr)

\* After a listen on port 0, a dial to its address and an accept on its rid
\* have both resolved.
C12_Witness ==
  \E o \in OpIds, d \in DialIds :
    /\ SameConnection(ops[o].json.rid, dials[d].json.rid)
    /\ Resolves(o)
    /\ dials[d].json.remoteAddr = "127.0.0.1:49152"
    /\ ops[o].json.remoteAddr = "127.0.0.1:50000"

\* The "lock" and "unlock" entries of a transcript, in order.
LockCalls(eff) == SelectSeq(eff, LAMBDA c : c \in {"lock", "unlock"})

\* No resolve_addr, connect or bind is called between a "lock" and its
\* "unlock".
NoBlockingUnderLock(eff) ==
  \A i \in DOMAIN eff :
    eff[i] \in {"resolve_addr", "connect", "bind"}
    => Locks(SubSeq(eff, 1, i)) = Unlocks(SubSeq(eff, 1, i))

\* C16: an Accept future that returned NotReady and a dial future that has
\* not run to its end never hold the table's lock, and op_listen and the
\* dial future call resolve_addr, bind and connect without the lock: the
\* lock is free for any other handler.
C16_NoLockAcrossSuspension ==
  [][/\ \A o \in OpIds : Suspended(o)' => lock' # AcceptTask(o)
     /\ \A d \in DialIds : dials'[d].pc = "pending" => lock' # DialTask(d)
     /\ (\E o \in OpIds : PollStep(o) /\ ev'.ret = "NotReady") => lock' = Free
     /\ (Step("listen") \/ Step("dial") \/ Step("dial_future"))
        => NoBlockingUnderLock(ev'.eff) /\ lock' = Free]_vars

\* The removal of a listener took the lock while an accept on it was
\* suspended and a dial was on its way.
C16_Witness ==
  /\ ev.op = "close"
  /\ ev.ret = "ok"
  /\ \E o \in OpIds : Suspended(o) /\ ~Resolves(o)
  /\ \E d \in DialIds : dials[d].pc = "pending"

\* C20: every step that locks the table finds the lock free, locks and
\* unlocks in turn (it never locks while its guard is alive) and has
\* released the lock when it returns, whatever it returns.
C20_NoRelockNoLeak ==
  [][ev' # NoEv
     => /\ Locks(ev'.eff) > 0 => lock = Free
        /\ \A i \in DOMAIN LockCalls(ev'.eff) :
             LockCalls(ev'.eff)[i] = IF i % 2 = 1 THEN "lock" ELSE "unlock"
        /\ Locks(ev'.eff) = Unlocks(ev'.eff)
        /\ lock' = Free]_vars

\* An accept added its stream after its poll had returned the connection:
\* the second lock of one accept.
C20_Witness ==
  \E o \in OpIds :
    /\ ev.who = AcceptTask(o)
    /\ ev.op = "and_then"
    /\ ev.ret = "ok"
    /\ Locks(ev.eff) = 1
    /\ lock = Free
====
